---- MODULE Spec2Model ----
(***************************************************************************)
(* IntelliDocs AI (src/app.py): the ingestion / question answering         *)
(* pipeline behind the Streamlit handlers.                                 *)
(*                                                                         *)
(* Text is modelled at the granularity the splitter works at.  A name is   *)
(* a sequence of tokens (strings); a line is a sequence of tokens; the     *)
(* extracted text of a document is a sequence of pieces, one piece per     *)
(* "\n\n"-separated paragraph, each carrying its length in characters.     *)
(* The first paragraph of a page is preceded, inside the same piece, by    *)
(* the page marker line get_pdf_text writes.  A chunk is the sequence of   *)
(* pieces the splitter joined.                                             *)
(***************************************************************************)
EXTENDS Integers, Sequences, FiniteSets, TLC

VARIABLES config, uploads, vector_store, processed_documents, chat_history, last

vars == <<config, uploads, vector_store, processed_documents, chat_history, last>>

(***************************************************************************)
(* Bounds of the model.                                                    *)
(***************************************************************************)
MaxBatch == 2        \* files selected in one Process Documents click
MaxHistory == 2      \* messages the chat history may hold; Send adds two
MaxPages == 3        \* pages of a document given to get_pdf_text alone
MaxNameToks == 2     \* tokens of a document name before its ".pdf"
MaxExchanges == 2    \* questions answered in one chat, in the chat-only runs

(***************************************************************************)
(* Program constants.                                                      *)
(***************************************************************************)
MAX_FILE_SIZE_MB == 50
DEFAULT_CHUNK_SIZE == 10000
DEFAULT_CHUNK_OVERLAP == 1000
MIN_CHUNK_LEN == 100
TOP_K == 5
BYTES_PER_MB == 1048576

UPLOAD_FIRST == "Please upload and process documents first."
NO_RELEVANT == "No relevant information found in the documents."
ERROR_PREFIX == "Error processing question: "
NOT_AVAILABLE == "The answer is not available in the provided documents"
\* the text of the st.error of the Send button (after its warning sign)
UPLOAD_FIRST_ERROR == "Please upload and process documents first!"

\* a value of os.getenv("CHUNK_SIZE") / os.getenv("CHUNK_OVERLAP")
ConfigSet ==
  { [chunk_size |-> DEFAULT_CHUNK_SIZE, chunk_overlap |-> DEFAULT_CHUNK_OVERLAP],
    [chunk_size |-> 1000, chunk_overlap |-> 2000],
    [chunk_size |-> DEFAULT_CHUNK_SIZE, chunk_overlap |-> DEFAULT_CHUNK_SIZE] }

(***************************************************************************)
(* Sequence helpers.                                                       *)
(***************************************************************************)
RECURSIVE Flatten(_)
Flatten(ss) == IF ss = <<>> THEN <<>> ELSE Head(ss) \o Flatten(Tail(ss))

RECURSIVE SumLen(_)
SumLen(toks) == IF toks = <<>> THEN 0 ELSE Len(Head(toks)) + SumLen(Tail(toks))

Contains(line, toks) == \E i \in 1..Len(line) : line[i] \in toks

\* str.split(sep) on a token sequence: the parts between occurrences of sep
RECURSIVE SplitOn(_, _, _)
SplitOn(line, sep, cur) ==
  IF line = <<>> THEN <<cur>>
  ELSE IF Head(line) = sep THEN <<cur>> \o SplitOn(Tail(line), sep, <<>>)
  ELSE SplitOn(Tail(line), sep, Append(cur, Head(line)))

\* str.replace(tok, '')
Remove(line, tok) == SelectSeq(line, LAMBDA t : t # tok)

IsSpace(t) == t \in {" ", "  "}

\* str.strip()
RECURSIVE StripLeft(_)
StripLeft(line) ==
  IF line # <<>> /\ IsSpace(Head(line)) THEN StripLeft(Tail(line)) ELSE line

RECURSIVE StripRight(_)
StripRight(line) ==
  IF line # <<>> /\ IsSpace(line[Len(line)])
  THEN StripRight(SubSeq(line, 1, Len(line) - 1)) ELSE line

Strip(line) == StripRight(StripLeft(line))

(***************************************************************************)
(* Uploaded files.                                                         *)
(***************************************************************************)
SKY == <<"sky", ".pdf">>
SKY_LONG == <<"the-sky-is-blue-a-one-page-note-about-the-colour-of-the-daytime-sky", ".pdf">>
REPORT == <<"report", ".pdf">>
SCAN == <<"scan", ".pdf">>
BIG == <<"big", ".pdf">>
BLANK == <<"blank", ".pdf">>
LIMIT == <<"limit", ".PDF">>
NOTES == <<"notes", ".txt">>

\* what page.extract_text() does for a page: text given as the lengths of its
\* paragraphs, quotes being the paragraphs whose line reads like a page
\* marker ("see --- Page 9 of annex"); blank text; or an exception
QuotingPage(paras, quotes) == [kind |-> "text", paras |-> paras, quotes |-> quotes]
TextPage(paras) == QuotingPage(paras, {})
BlankPage == [kind |-> "blank", paras |-> <<>>, quotes |-> {}]
RaisingPage == [kind |-> "raise", paras |-> <<>>, quotes |-> {}]

UploadedFile(name, size, readable, pages, metaRaises) ==
  [name |-> name, size |-> size, readable |-> readable, pages |-> pages,
   metaRaises |-> metaRaises]

\* "The sky is blue." is 16 characters
SkyFile == UploadedFile(SKY, 2000, TRUE, <<TextPage(<<16>>)>>, FALSE)
SkyLongFile == UploadedFile(SKY_LONG, 2000, TRUE, <<TextPage(<<16>>)>>, FALSE)
ReportFile ==
  UploadedFile(REPORT, 3 * BYTES_PER_MB, TRUE,
               <<TextPage(<<6000, 6000, 6000>>), TextPage(<<3000>>)>>, FALSE)
ScanFile == UploadedFile(SCAN, 5000, TRUE, <<TextPage(<<150>>)>>, TRUE)
BigFile ==
  UploadedFile(BIG, MAX_FILE_SIZE_MB * BYTES_PER_MB + 1, TRUE,
               <<TextPage(<<150>>)>>, FALSE)
BlankFile == UploadedFile(BLANK, 4000, TRUE, <<BlankPage, RaisingPage>>, FALSE)

\* a file of exactly MAX_FILE_SIZE_MB, and a text file
LimitFile ==
  UploadedFile(LIMIT, MAX_FILE_SIZE_MB * BYTES_PER_MB, TRUE,
               <<TextPage(<<150>>)>>, FALSE)
NotesFile == UploadedFile(NOTES, 1000, TRUE, <<TextPage(<<150>>)>>, FALSE)

Files ==
  {SkyFile, SkyLongFile, ReportFile, ScanFile, BigFile, BlankFile, LimitFile,
   NotesFile}

\* the files a user has at hand for the file_uploader
UploadSets ==
  { {SkyFile, SkyLongFile},
    {ReportFile, ScanFile},
    {ReportFile, BigFile},
    {SkyLongFile, BlankFile},
    {LimitFile, NotesFile} }

(***************************************************************************)
(* get_pdf_text                                                            *)
(***************************************************************************)
\* f"--- Page {page_num + 1} of {pdf_doc.name} ---"
MarkerLine(name, n) == <<"--- Page ", ToString(n), " of ">> \o name \o <<" ---">>

TextLine == <<"text">>

QuoteLine == <<"see ", "--- Page ", "9", " of ", "annex">>

\* the pieces one page adds to the text: marker line + first paragraph, then
\* the remaining paragraphs
PagePieces(name, n, page) ==
  [i \in 1..Len(page.paras) |->
     [doc |-> name, page |-> n, marker |-> (i = 1), len |-> page.paras[i],
      quote |-> (i \in page.quotes)]]

RECURSIVE PagesText(_, _, _)
PagesText(name, pages, i) ==
  IF i > Len(pages) THEN <<>>
  ELSE IF pages[i].kind = "raise" THEN <<>>
  ELSE (IF pages[i].kind = "text" THEN PagePieces(name, i, pages[i]) ELSE <<>>)
       \o PagesText(name, pages, i + 1)

RECURSIVE get_pdf_text(_)
get_pdf_text(pdf_docs) ==
  IF pdf_docs = <<>> THEN <<>>
  ELSE (IF Head(pdf_docs).readable
        THEN PagesText(Head(pdf_docs).name, Head(pdf_docs).pages, 1)
        ELSE <<>>)
       \o get_pdf_text(Tail(pdf_docs))

(***************************************************************************)
(* get_text_chunks: RecursiveCharacterTextSplitter(chunk_size,             *)
(* chunk_overlap).split_text, for texts whose paragraphs are shorter than  *)
(* chunk_size, followed by the length filter.                              *)
(***************************************************************************)
Lines(piece) ==
  (IF piece.marker THEN <<MarkerLine(piece.doc, piece.page)>> ELSE <<>>)
  \o <<IF piece.quote THEN QuoteLine ELSE TextLine>>

\* characters of a piece: "\n\n", the marker line and its "\n", the paragraph
PieceLen(piece) ==
  2 + (IF piece.marker THEN SumLen(MarkerLine(piece.doc, piece.page)) + 1 ELSE 0)
    + piece.len

RECURSIVE TotalLen(_)
TotalLen(pieces) ==
  IF pieces = <<>> THEN 0 ELSE PieceLen(Head(pieces)) + TotalLen(Tail(pieces))

\* len(chunk.strip()): the joined pieces without the leading "\n\n"
StrippedLen(chunk) == IF chunk = <<>> THEN 0 ELSE TotalLen(chunk) - 2

\* the while loop of _merge_splits that drops pieces from the front of
\* current_doc until what is left fits the overlap and the next piece
RECURSIVE PopFront(_, _, _, _)
PopFront(current_doc, total, len, cfg) ==
  IF total > cfg.chunk_overlap \/ (total + len > cfg.chunk_size /\ total > 0)
  THEN PopFront(Tail(current_doc), total - PieceLen(Head(current_doc)), len, cfg)
  ELSE current_doc

RECURSIVE merge_splits(_, _, _, _)
merge_splits(splits, current_doc, docs, cfg) ==
  IF splits = <<>>
  THEN IF current_doc = <<>> THEN docs ELSE Append(docs, current_doc)
  ELSE LET d == Head(splits)
           len == PieceLen(d)
           total == TotalLen(current_doc)
       IN IF total + len > cfg.chunk_size /\ current_doc # <<>>
          THEN merge_splits(Tail(splits),
                            Append(PopFront(current_doc, total, len, cfg), d),
                            Append(docs, current_doc), cfg)
          ELSE merge_splits(Tail(splits), Append(current_doc, d), docs, cfg)

split_text(text, cfg) == merge_splits(text, <<>>, <<>>, cfg)

\* a bug of line 161: only empty chunks are dropped
KeepChunk_nonempty(chunk) == StrippedLen(chunk) > 0

\* a bug of line 161: the minimum length written as 10
KeepChunk_ten(chunk) == StrippedLen(chunk) > 10

\* line 161: len(chunk.strip()) > 100
KeepChunk(chunk) == StrippedLen(chunk) > MIN_CHUNK_LEN

get_text_chunks(text, cfg) ==
  IF cfg.chunk_overlap > cfg.chunk_size
  THEN [raised |-> TRUE, chunks |-> <<>>]
  ELSE [raised |-> FALSE, chunks |-> SelectSeq(split_text(text, cfg), KeepChunk)]

(***************************************************************************)
(* extract_source_info                                                     *)
(***************************************************************************)
ContentLines(content) ==
  Flatten([i \in 1..Len(content) |-> Lines(content[i])])

\* the body of the loop over lines: <<>> when the line is skipped (test
\* fails, a single part, or the IndexError swallowed by the bare except)
ParseLine(line) ==
  IF Contains(line, {"--- Page "}) /\ Contains(line, {" of "})
  THEN LET parts == SplitOn(line, " of ", <<>>)
       IN IF Len(parts) > 1
          THEN LET filename == Strip(Remove(parts[2], " ---"))
                   page_parts == SplitOn(parts[1], "--- Page ", <<>>)
               IN IF Len(page_parts) > 1
                  THEN <<[document |-> filename, page |-> Strip(page_parts[2])]>>
                  ELSE <<>>
          ELSE <<>>
  ELSE <<>>

RECURSIVE FirstSource(_)
FirstSource(lines) ==
  IF lines = <<>> THEN <<>>
  ELSE IF ParseLine(Head(lines)) # <<>> THEN ParseLine(Head(lines))
  ELSE FirstSource(Tail(lines))

\* a bug of lines 252-253: only the first line of the content is examined
extract_source_info_first_line(content) ==
  IF ContentLines(content) = <<>> THEN <<>>
  ELSE ParseLine(Head(ContentLines(content)))

\* <<>> stands for None, <<s>> for the dict s
extract_source_info(content) == FirstSource(ContentLines(content))

(***************************************************************************)
(* process_question.  outcome is what the backends do for this call;       *)
(* ranking is the order (as positions in the index) in which the           *)
(* similarity search returns its hits.                                     *)
(***************************************************************************)
Outcomes ==
  {"search_error", "chain_error", "generation_error", "answer", "not_available"}

ErrorText(outcome) ==
  CASE outcome = "search_error" -> "embedding request failed"
    [] outcome = "chain_error" -> "model not found"
    [] OTHER -> "generation request failed"

Min(a, b) == IF a < b THEN a ELSE b

\* orders a similarity search over n entries can return its k best hits in
Rankings(n) ==
  LET m == Min(TOP_K, n)
  IN { [i \in 1..m |-> i],
       [i \in 1..m |-> n + 1 - i],
       [i \in 1..m |-> (i % n) + 1] }

similarity_search(store, ranking) ==
  [i \in 1..Len(ranking) |-> store.texts[ranking[i]]]

Result(answer, sources, docs, searched, generated) ==
  [answer |-> answer, sources |-> sources, docs |-> docs,
   searched |-> searched, generated |-> generated, raised |-> FALSE]

\* a bug of lines 215-248: the sources are collected before the chain runs
\* and returned with the error message
process_question_try_sources_kept(question, store, outcome, ranking) ==
  IF outcome = "search_error"
  THEN Result(ERROR_PREFIX \o ErrorText(outcome), <<>>, <<>>, TRUE, FALSE)
  ELSE LET docs == similarity_search(store, ranking)
           sources == Flatten([i \in 1..Len(docs) |-> extract_source_info(docs[i])])
       IN IF outcome \in {"chain_error", "generation_error"}
          THEN Result(ERROR_PREFIX \o ErrorText(outcome), sources, docs, TRUE,
                      outcome = "generation_error")
          ELSE Result(IF outcome = "not_available" THEN NOT_AVAILABLE
                      ELSE "The sky is blue.", sources, docs, TRUE, TRUE)

\* a bug of lines 232-237: a citation already listed is not listed again
RECURSIVE Dedup(_)
Dedup(ss) ==
  IF ss = <<>> THEN <<>>
  ELSE LET init == Dedup(SubSeq(ss, 1, Len(ss) - 1))
           x == ss[Len(ss)]
       IN IF \E i \in 1..Len(init) : init[i] = x THEN init ELSE Append(init, x)

process_question_try_dedup(question, store, outcome, ranking) ==
  IF outcome = "search_error"
  THEN Result(ERROR_PREFIX \o ErrorText(outcome), <<>>, <<>>, TRUE, FALSE)
  ELSE LET docs == similarity_search(store, ranking)
       IN IF outcome \in {"chain_error", "generation_error"}
          THEN Result(ERROR_PREFIX \o ErrorText(outcome), <<>>, docs, TRUE,
                      outcome = "generation_error")
          ELSE Result(IF outcome = "not_available" THEN NOT_AVAILABLE
                      ELSE "The sky is blue.",
                      Dedup(Flatten([i \in 1..Len(docs) |->
                                       extract_source_info(docs[i])])),
                      docs, TRUE, TRUE)

\* a bug of lines 244-248: a failure of the chain is not caught
process_question_try_uncaught(question, store, outcome, ranking) ==
  IF outcome = "search_error"
  THEN Result(ERROR_PREFIX \o ErrorText(outcome), <<>>, <<>>, TRUE, FALSE)
  ELSE LET docs == similarity_search(store, ranking)
       IN IF docs = <<>>
          THEN Result(NO_RELEVANT, <<>>, docs, TRUE, FALSE)
          ELSE IF outcome \in {"chain_error", "generation_error"}
          THEN [Result("", <<>>, docs, TRUE, outcome = "generation_error")
                  EXCEPT !.raised = TRUE]
          ELSE Result(IF outcome = "not_available" THEN NOT_AVAILABLE
                      ELSE "The sky is blue.",
                      Flatten([i \in 1..Len(docs) |-> extract_source_info(docs[i])]),
                      docs, TRUE, TRUE)

\* the try block, lines 215-248
process_question_try(question, store, outcome, ranking) ==
  IF outcome = "search_error"
  THEN Result(ERROR_PREFIX \o ErrorText(outcome), <<>>, <<>>, TRUE, FALSE)
  ELSE LET docs == similarity_search(store, ranking)
       IN IF docs = <<>>
          THEN Result(NO_RELEVANT, <<>>, docs, TRUE, FALSE)
          ELSE IF outcome = "chain_error"
          THEN Result(ERROR_PREFIX \o ErrorText(outcome), <<>>, docs, TRUE, FALSE)
          ELSE IF outcome = "generation_error"
          THEN Result(ERROR_PREFIX \o ErrorText(outcome), <<>>, docs, TRUE, TRUE)
          ELSE Result(IF outcome = "not_available" THEN NOT_AVAILABLE
                      ELSE "The sky is blue.",
                      Flatten([i \in 1..Len(docs) |-> extract_source_info(docs[i])]),
                      docs, TRUE, TRUE)

\* a bug of lines 209-213: without the guard the search is attempted on None
\* and the AttributeError is reported by the except clause
process_question_unguarded(question, store, outcome, ranking) ==
  IF ~store.present
  THEN Result(ERROR_PREFIX \o "'NoneType' object has no attribute 'similarity_search'",
              <<>>, <<>>, FALSE, FALSE)
  ELSE process_question_try(question, store, outcome, ranking)

process_question(question, store, outcome, ranking) ==
  IF ~store.present
  THEN Result(UPLOAD_FIRST, <<>>, <<>>, FALSE, FALSE)
  ELSE process_question_try(question, store, outcome, ranking)

(***************************************************************************)
(* get_vector_store: backendOk is whether embedding, FAISS.from_texts and  *)
(* save_local all complete without raising.                                *)
(***************************************************************************)
None == [present |-> FALSE, texts |-> <<>>]

get_vector_store(text_chunks, backendOk) ==
  IF backendOk THEN [present |-> TRUE, texts |-> text_chunks] ELSE None

(***************************************************************************)
(* validate_pdf_file                                                       *)
(***************************************************************************)
Lower(tok) == IF tok = ".PDF" THEN ".pdf" ELSE tok

EndsWithPdf(name) == name # <<>> /\ Lower(name[Len(name)]) = ".pdf"

\* a bug of line 272: a file of exactly the maximum size is refused
validate_pdf_file_at_limit(uploaded_file) ==
  IF uploaded_file.size >= MAX_FILE_SIZE_MB * BYTES_PER_MB
  THEN [ok |-> FALSE, error |-> "File too large"]
  ELSE IF ~EndsWithPdf(uploaded_file.name)
  THEN [ok |-> FALSE, error |-> "Only PDF files are supported"]
  ELSE IF ~uploaded_file.readable
  THEN [ok |-> FALSE, error |-> "Invalid or corrupted PDF file"]
  ELSE IF Len(uploaded_file.pages) = 0
  THEN [ok |-> FALSE, error |-> "PDF appears to be empty"]
  ELSE [ok |-> TRUE, error |-> ""]

validate_pdf_file(uploaded_file) ==
  IF uploaded_file.size > MAX_FILE_SIZE_MB * BYTES_PER_MB
  THEN [ok |-> FALSE, error |-> "File too large"]
  ELSE IF ~EndsWithPdf(uploaded_file.name)
  THEN [ok |-> FALSE, error |-> "Only PDF files are supported"]
  ELSE IF ~uploaded_file.readable
  THEN [ok |-> FALSE, error |-> "Invalid or corrupted PDF file"]
  ELSE IF Len(uploaded_file.pages) = 0
  THEN [ok |-> FALSE, error |-> "PDF appears to be empty"]
  ELSE [ok |-> TRUE, error |-> ""]

(***************************************************************************)
(* process_documents                                                       *)
(***************************************************************************)
\* processed_documents[name] = {...}: a dict keeps one entry per key
SetEntry(registry, entry) ==
  {e \in registry : e.name # entry.name} \cup {entry}

\* one iteration of the loop over uploaded_files: whether get_pdf_text was
\* called on the file, what the file appends to all_text_chunks, the registry
\* entry it stores (if any) and how it ended
ProcessFile(uploaded_file, cfg) ==
  IF ~validate_pdf_file(uploaded_file).ok
  THEN [status |-> "rejected", extracted |-> FALSE, extended |-> <<>>,
        entry |-> <<>>]
  ELSE LET text == get_pdf_text(<<uploaded_file>>)
           split == get_text_chunks(text, cfg)
       IN IF text = <<>>
          THEN [status |-> "no_text", extracted |-> TRUE, extended |-> <<>>,
                entry |-> <<>>]
          ELSE IF split.raised
          THEN [status |-> "error", extracted |-> TRUE, extended |-> <<>>,
                entry |-> <<>>]
          ELSE IF split.chunks = <<>>
          THEN [status |-> "no_chunks", extracted |-> TRUE,
                extended |-> <<>>, entry |-> <<>>]
          ELSE IF uploaded_file.metaRaises
          THEN [status |-> "error", extracted |-> TRUE,
                extended |-> split.chunks, entry |-> <<>>]
          ELSE [status |-> "ok", extracted |-> TRUE, extended |-> split.chunks,
                entry |-> <<[name |-> uploaded_file.name,
                             pages |-> Len(uploaded_file.pages),
                             chunks |-> Len(split.chunks)]>>]

\* the outcome of the loop body for every file and configuration
FileOutcome == [cfg \in ConfigSet |-> [f \in Files |-> ProcessFile(f, cfg)]]

FileResults(uploaded_files, cfg) ==
  [i \in 1..Len(uploaded_files) |-> FileOutcome[cfg][uploaded_files[i]]]

AllTextChunks(results) ==
  Flatten([i \in 1..Len(results) |-> results[i].extended])

RECURSIVE StoreEntries(_, _, _)
StoreEntries(registry, results, i) ==
  IF i > Len(results) THEN registry
  ELSE StoreEntries(IF results[i].entry = <<>> THEN registry
                    ELSE SetEntry(registry, results[i].entry[1]),
                    results, i + 1)

\* a bug of lines 480-482: the result of the build is assigned unchecked
StoreAfterBuild_unchecked(old_store, all_text_chunks, backendOk) ==
  IF all_text_chunks # <<>>
  THEN get_vector_store(all_text_chunks, backendOk)
  ELSE old_store

\* a bug of lines 480-482: the new chunks are added to the index held
StoreAfterBuild_extends(old_store, all_text_chunks, backendOk) ==
  IF all_text_chunks # <<>> /\ backendOk
  THEN [present |-> TRUE, texts |-> old_store.texts \o all_text_chunks]
  ELSE old_store

\* lines 477-491: the store the session holds after the build
StoreAfterBuild(old_store, all_text_chunks, backendOk) ==
  IF all_text_chunks # <<>>
  THEN LET built == get_vector_store(all_text_chunks, backendOk)
       IN IF built.present THEN built ELSE old_store
  ELSE old_store

BuildOutcome(all_text_chunks, backendOk) ==
  IF all_text_chunks = <<>> THEN "skipped"
  ELSE IF backendOk THEN "ok" ELSE "failed"

Batches(files) == UNION {[1..n -> files] : n \in 1..MaxBatch}

\* the Process Documents button is pressed again on the files of the call
\* before, whose build did not fail
Rerun(l, uploaded_files) ==
  /\ l.op = "process_documents"
  /\ l.batch = uploaded_files
  /\ l.build # "failed"

process_documents(uploaded_files, backendOk) ==
  LET results == FileResults(uploaded_files, config)
      all_text_chunks == AllTextChunks(results)
  IN /\ processed_documents' = StoreEntries(processed_documents, results, 1)
     /\ vector_store' = StoreAfterBuild(vector_store, all_text_chunks, backendOk)
     /\ last' = [op |-> "process_documents",
                 batch |-> uploaded_files,
                 rerun |-> Rerun(last, uploaded_files),
                 files |-> [i \in 1..Len(results) |-> uploaded_files[i].name],
                 statuses |-> [i \in 1..Len(results) |-> results[i].status],
                 extracted |-> [i \in 1..Len(results) |-> results[i].extracted],
                 extended |-> [i \in 1..Len(results) |-> results[i].extended],
                 build |-> BuildOutcome(all_text_chunks, backendOk)]
     /\ UNCHANGED <<config, uploads, chat_history>>

ProcessDocuments ==
  \E uploaded_files \in Batches(uploads), backendOk \in BOOLEAN :
     process_documents(uploaded_files, backendOk)

\* what the session held when Remove All was pressed
Held ==
  [documents |-> Cardinality(processed_documents),
   chunks |-> Len(vector_store.texts),
   messages |-> Len(chat_history)]

\* a bug of lines 400-402: the index is not dropped
RemoveAll_keeps_index ==
  /\ processed_documents' = {}
  /\ chat_history' = <<>>
  /\ last' = [op |-> "remove_all", held |-> Held]
  /\ UNCHANGED <<config, uploads, vector_store>>

\* the Remove All button
RemoveAll ==
  /\ processed_documents' = {}
  /\ chat_history' = <<>>
  /\ vector_store' = None
  /\ last' = [op |-> "remove_all", held |-> Held]
  /\ UNCHANGED <<config, uploads>>

(***************************************************************************)
(* render_chat_interface: the Send and Clear Chat buttons                  *)
(***************************************************************************)
Questions == {"What color is the sky?", "   "}

IsBlank(q) == q \in {"", "   "}

\* the Send button, while the history has room for the exchange
SendWithin(cap) ==
  \E user_question \in Questions, outcome \in Outcomes,
     ranking \in Rankings(Len(vector_store.texts)) :
    /\ Len(chat_history) + 2 <= cap
    /\ IF IsBlank(user_question) \/ processed_documents = {}
       THEN /\ chat_history' = chat_history
            /\ last' = [op |-> "send", called |-> FALSE,
                        question |-> user_question,
                        error |-> IF IsBlank(user_question) THEN ""
                                  ELSE UPLOAD_FIRST_ERROR]
       ELSE LET user_msg == [type |-> "user", content |-> user_question]
                response_data ==
                  process_question(user_question, vector_store, outcome, ranking)
                ai_msg == [type |-> "ai", content |-> response_data.answer,
                           sources |-> response_data.sources]
            IN /\ chat_history' =
                    IF response_data.raised THEN Append(chat_history, user_msg)
                    ELSE chat_history \o <<user_msg, ai_msg>>
               /\ last' = [op |-> "send", called |-> TRUE,
                           question |-> user_question, error |-> "",
                           outcome |-> outcome, result |-> response_data]
    /\ UNCHANGED <<config, uploads, vector_store, processed_documents>>

Send == SendWithin(MaxHistory)

ClearChat ==
  /\ chat_history' = <<>>
  /\ last' = [op |-> "clear_chat"]
  /\ UNCHANGED <<config, uploads, vector_store, processed_documents>>

\* the configuration and the files of a session; the configuration whose
\* overlap equals its chunk size is run on the long document only
Init ==
  /\ config \in ConfigSet
  /\ uploads \in UploadSets
  /\ config.chunk_overlap = config.chunk_size => ReportFile \in uploads
  /\ vector_store = None
  /\ processed_documents = {}
  /\ chat_history = <<>>
  /\ last = [op |-> "init"]

Next == ProcessDocuments \/ RemoveAll \/ Send \/ ClearChat

Spec == Init /\ [][Next]_vars

(***************************************************************************)
(* The chat on its own: one document at hand, default configuration, and   *)
(* room for MaxExchanges questions and their answers in the history.       *)
(***************************************************************************)
ChatInit ==
  /\ config = [chunk_size |-> DEFAULT_CHUNK_SIZE,
               chunk_overlap |-> DEFAULT_CHUNK_OVERLAP]
  /\ uploads = {ReportFile}
  /\ vector_store = None
  /\ processed_documents = {}
  /\ chat_history = <<>>
  /\ last = [op |-> "init"]

SendChat == SendWithin(2 * MaxExchanges)

ChatNext == ProcessDocuments \/ RemoveAll \/ SendChat \/ ClearChat

ChatSpec == ChatInit /\ [][ChatNext]_vars

(***************************************************************************)
(* get_pdf_text and extract_source_info on their own: the functions are    *)
(* applied to documents of up to MaxPages pages of every kind, and to      *)
(* chunks cut from documents whose names hold the separators of the marker *)
(* line.                                                                   *)
(***************************************************************************)
PageKinds == {TextPage(<<300>>), BlankPage, RaisingPage}

NameToks == {"a", " of ", " ---", " "}

DocNames ==
  {stem \o <<".pdf">> : stem \in UNION {[1..n -> NameToks] : n \in 1..MaxNameToks}}

TextInit ==
  /\ config = [chunk_size |-> DEFAULT_CHUNK_SIZE,
               chunk_overlap |-> DEFAULT_CHUNK_OVERLAP]
  /\ uploads = {}
  /\ vector_store = None
  /\ processed_documents = {}
  /\ chat_history = <<>>
  /\ last = [op |-> "init"]

\* get_pdf_text([pdf]) for one document
ExtractText ==
  \E n \in 1..MaxPages : \E pages \in [1..n -> PageKinds] :
    LET pdf == UploadedFile(REPORT, 5000, TRUE, pages, FALSE)
    IN /\ last' = [op |-> "get_pdf_text", pages |-> pages,
                   text |-> get_pdf_text(<<pdf>>)]
       /\ UNCHANGED <<config, uploads, vector_store, processed_documents,
                      chat_history>>

\* the chunk of a document of n two-paragraph pages that starts with the
\* second paragraph of page n - 1 (when there is one) and holds the marker
\* of page n; quoted: that second paragraph reads like a page marker
MarkerChunk(name, n, quoted) ==
  LET pages == [i \in 1..n |->
                  QuotingPage(<<300, 300>>,
                              IF quoted /\ i = n - 1 THEN {2} ELSE {})]
      text == get_pdf_text(<<UploadedFile(name, 5000, TRUE, pages, FALSE)>>)
  IN SubSeq(text, IF n = 1 THEN 1 ELSE 2 * n - 2, 2 * n - 1)

\* extract_source_info(chunk) for such a chunk
CiteMarker ==
  \E name \in DocNames, n \in 1..MaxPages, quoted \in BOOLEAN :
    /\ quoted => n > 1
    /\ last' = [op |-> "extract_source_info", name |-> name, page |-> n,
                quoted |-> quoted,
                source |-> extract_source_info(MarkerChunk(name, n, quoted))]
    /\ UNCHANGED <<config, uploads, vector_store, processed_documents,
                   chat_history>>

TextNext == ExtractText \/ CiteMarker

TextSpec == TextInit /\ [][TextNext]_vars
(***************************************************************************)
(* Properties.                                                             *)
(***************************************************************************)
DefaultConfig ==
  [chunk_size |-> DEFAULT_CHUNK_SIZE, chunk_overlap |-> DEFAULT_CHUNK_OVERLAP]

Answered(l) == l.op = "send" /\ l.called

Generated(l) == Answered(l) /\ l.outcome \in {"answer", "not_available"}

ChunkOf(store, chunk) == \E j \in 1..Len(store.texts) : store.texts[j] = chunk

\* C1: when the build of the vector store fails during process_documents,
\* vector_store is exactly what it was before the call; a question is
\* answered from the chunks of the store the session holds, or gets the
\* upload-first reply when there is none.
C1_FailedBuildKeepsStore ==
  [][ /\ (last'.op = "process_documents" /\ last'.build = "failed")
          => vector_store' = vector_store
      /\ Answered(last')
          => IF vector_store.present
             THEN \A i \in 1..Len(last'.result.docs) :
                     ChunkOf(vector_store, last'.result.docs[i])
             ELSE last'.result.answer = UPLOAD_FIRST ]_vars

C1_Witness ==
  /\ last.op = "process_documents"
  /\ last.build = "failed"
  /\ vector_store.present

\* C2: with no index present process_question answers "Please upload and
\* process documents first." with no sources, and makes neither a similarity
\* search nor a generation call.
C2_NoIndexUploadFirst ==
  [][ (Answered(last') /\ ~vector_store.present)
        => /\ last'.result.answer = UPLOAD_FIRST
           /\ last'.result.sources = <<>>
           /\ ~last'.result.searched
           /\ ~last'.result.generated ]_vars

C2_Witness ==
  /\ Answered(last)
  /\ ~vector_store.present
  /\ processed_documents # {}
  /\ last.result.answer = UPLOAD_FIRST

\* C3: when the generated answer says the information is not available in
\* the documents, the sources list returned by process_question is empty.
C3_UnsupportedAnswerCitesNothing ==
  (Generated(last) /\ last.result.answer = NOT_AVAILABLE)
     => last.result.sources = <<>>

\* C4: a file that fails (rejected, no text, no valid chunks, or an exception
\* while it is processed) does not stop the loop, adds no chunk to the batch
\* and leaves the registry entry of its name alone.
C4_FailingFileContributesNothing ==
  [][ last'.op = "process_documents"
        => /\ Len(last'.statuses) = Len(last'.files)
           /\ \A i \in 1..Len(last'.files) :
                last'.statuses[i] # "ok"
                  => /\ last'.extended[i] = <<>>
                     /\ (\A k \in 1..Len(last'.files) :
                            last'.files[k] = last'.files[i] => last'.statuses[k] # "ok")
                         => {e \in processed_documents' : e.name = last'.files[i]}
                            = {e \in processed_documents : e.name = last'.files[i]} ]_vars

\* C5: after a successful process_documents the index holds exactly the
\* chunks of the accepted documents of that batch, in batch order; any other
\* process_documents leaves the index as it was.
AcceptedChunks(l) ==
  Flatten([i \in 1..Len(l.files) |->
             IF l.statuses[i] = "ok" THEN l.extended[i] ELSE <<>>])

C5_IndexIsAcceptedChunksOfOneBatch ==
  [][ last'.op = "process_documents"
        => IF last'.build = "ok"
           THEN vector_store' = [present |-> TRUE, texts |-> AcceptedChunks(last')]
           ELSE vector_store' = vector_store ]_vars

\* C6: the sources returned by process_question follow the order in which
\* the chunks were retrieved, and two retrieved chunks with the same
\* (document, page) give two entries.
CitedPositions(docs) ==
  SelectSeq([i \in 1..Len(docs) |-> i],
            LAMBDA i : extract_source_info(docs[i]) # <<>>)

C6_CitationsFollowRetrievalOrder ==
  Generated(last)
    => LET docs == last.result.docs
           pos == CitedPositions(docs)
       IN /\ Len(last.result.sources) = Len(pos)
          /\ \A j \in 1..Len(pos) :
               last.result.sources[j] = extract_source_info(docs[pos[j]])[1]

C6_Witness ==
  /\ Generated(last)
  /\ Len(last.result.sources) >= 3
  /\ last.result.sources[1] = last.result.sources[3]
  /\ last.result.sources[1] # last.result.sources[2]
  /\ last.result.sources[1].page = <<"2">>

HasMarkerLine(chunk) == \E j \in 1..Len(chunk) : chunk[j].marker

C8_CitedPageIsStartPage ==
  Generated(last)
    => \A i \in 1..Len(last.result.docs) :
          LET chunk == last.result.docs[i]
              cited == extract_source_info(chunk)
          IN cited # <<>> => cited[1].page = <<ToString(chunk[1].page)>>

\* C9 as stated: a batch of one one-page document with the text "The sky is
\* blue." under the default configuration yields one chunk and a registry
\* entry with chunks = 1.
SkyBatch(l) ==
  /\ l.op = "process_documents"
  /\ l.files \in {<<SKY>>, <<SKY_LONG>>}
  /\ config = DefaultConfig

SkyEntry(name) == [name |-> name, pages |-> 1, chunks |-> 1]

C9_SkyYieldsOneChunk ==
  SkyBatch(last)
    => /\ Len(last.extended[1]) = 1
       /\ SkyEntry(last.files[1]) \in processed_documents

\* C9 amended: the document yields one indexed chunk and a registry entry
\* with chunks = 1 only when marker line and text together are longer than
\* 100 characters, and a later question then gets the one citation with page
\* "1"; otherwise it yields no chunk and no registry entry and leaves the
\* index as it was.
SkyChunk(name) ==
  <<[doc |-> name, page |-> 1, marker |-> TRUE, len |-> 16, quote |-> FALSE]>>

SkyMarkedLen(name) == SumLen(MarkerLine(name, 1)) + 1 + 16

C9_SkyYieldsOneChunkIfLongEnough ==
  [][ /\ SkyBatch(last')
        => LET name == last'.files[1]
           IN IF SkyMarkedLen(name) > MIN_CHUNK_LEN
              THEN /\ last'.extended = <<<<SkyChunk(name)>>>>
                   /\ SkyEntry(name) \in processed_documents'
                   /\ last'.build = "ok"
                        => vector_store' = [present |-> TRUE,
                                            texts |-> <<SkyChunk(name)>>]
              ELSE /\ last'.extended = <<<<>>>>
                   /\ processed_documents' = processed_documents
                   /\ vector_store' = vector_store
      /\ (Generated(last') /\ vector_store.texts \in {<<SkyChunk(SKY)>>, <<SkyChunk(SKY_LONG)>>})
        => last'.result.sources
             = <<[document |-> vector_store.texts[1][1].doc, page |-> <<"1">>]>> ]_vars

C9_Witness ==
  /\ Generated(last)
  /\ vector_store.texts = <<SkyChunk(SKY_LONG)>>
  /\ processed_documents = {SkyEntry(SKY_LONG)}
  /\ last.result.sources = <<[document |-> SKY_LONG, page |-> <<"1">>]>>

\* C10: with an index present, a failure of retrieval, chain construction or
\* generation is not raised: the result carries "Error processing question:
\* ..." and no sources, and index, registry and earlier chat history stay.
C10_FailureReturnedAsAnswer ==
  [][ (Answered(last') /\ vector_store.present
         /\ last'.outcome \in {"search_error", "chain_error", "generation_error"})
        => /\ ~last'.result.raised
           /\ last'.result.answer = ERROR_PREFIX \o ErrorText(last'.outcome)
           /\ last'.result.sources = <<>>
           /\ vector_store' = vector_store
           /\ processed_documents' = processed_documents
           /\ Len(chat_history') = Len(chat_history) + 2
           /\ SubSeq(chat_history', 1, Len(chat_history)) = chat_history
           /\ chat_history'[Len(chat_history')].type = "ai"
           /\ chat_history'[Len(chat_history')].content = last'.result.answer
           /\ chat_history'[Len(chat_history')].sources = <<>> ]_vars

C10_Witness ==
  /\ Answered(last)
  /\ vector_store.present
  /\ last.outcome = "generation_error"
  /\ last.result.generated
  /\ last.result.answer = ERROR_PREFIX \o "generation request failed"
\* C11: in get_pdf_text a page whose extraction raises or gives blank text
\* adds nothing and does not abort the document: the text holds the marker
\* and the text of exactly the pages with non-blank text, those after a
\* failing page included.
C11_FailingPageDoesNotAbortDocument ==
  last.op = "get_pdf_text"
    => \A p \in 1..Len(last.pages) :
          last.pages[p].kind = "text"
            <=> \E i \in 1..Len(last.text) :
                   last.text[i].page = p /\ last.text[i].marker

\* C17: extract_source_info of a chunk whose first marker line is the one
\* get_pdf_text wrote for (name, n) is {document: name, page: n}, whatever
\* the name holds and whatever text precedes the marker.
C17_CitationRoundTrip ==
  last.op = "extract_source_info"
    => last.source = <<[document |-> last.name, page |-> <<ToString(last.page)>>]>>

\* C12: every chunk get_text_chunks returns during an ingestion, and every
\* chunk the index holds, is at least 100 characters long once trimmed.
C12_ChunksAtLeast100 ==
  /\ \A j \in 1..Len(vector_store.texts) :
        StrippedLen(vector_store.texts[j]) >= 100
  /\ last.op = "process_documents"
       => \A i \in 1..Len(last.extended) : \A k \in 1..Len(last.extended[i]) :
             StrippedLen(last.extended[i][k]) >= 100

\* sky.pdf (42 characters with its marker) is dropped and the 106 characters
\* of the long-named copy are indexed
C12_Witness ==
  /\ last.op = "process_documents"
  /\ last.files = <<SKY, SKY_LONG>>
  /\ last.statuses = <<"no_chunks", "ok">>
  /\ vector_store.texts = last.extended[2]
  /\ Len(vector_store.texts) = 1
  /\ StrippedLen(vector_store.texts[1]) < 110

\* C13: with a configuration that violates 0 <= overlap < chunk_size a
\* process_documents call fails before any document is processed: no file is
\* extracted or chunked, and the index and the registry stay as they were.
ValidChunkConfig(cfg) ==
  0 <= cfg.chunk_overlap /\ cfg.chunk_overlap < cfg.chunk_size

C13_InvalidConfigFailsFast ==
  [][ (last'.op = "process_documents" /\ ~ValidChunkConfig(config))
        => /\ \A i \in 1..Len(last'.files) :
                ~last'.extracted[i] /\ last'.extended[i] = <<>>
           /\ vector_store' = vector_store
           /\ processed_documents' = processed_documents ]_vars

\* C14: Remove All empties the registry, the index and the chat history in
\* one step; a question sent right after it is refused with the upload-first
\* message, adds nothing to the chat, and process_question on the store left
\* behind answers upload-first with no sources and retrieves no chunk.
C14_RemoveAllResets ==
  [][ /\ last'.op = "remove_all"
          => /\ processed_documents' = {}
             /\ vector_store' = [present |-> FALSE, texts |-> <<>>]
             /\ chat_history' = <<>>
      /\ (last.op = "remove_all" /\ last'.op = "send"
             /\ last'.question = "What color is the sky?")
          => /\ ~last'.called
             /\ last'.error = UPLOAD_FIRST_ERROR
             /\ chat_history' = <<>>
             /\ \A outcome \in Outcomes :
                  \A ranking \in Rankings(Len(vector_store'.texts)) :
                    LET r == process_question(last'.question, vector_store',
                                              outcome, ranking)
                    IN /\ r.answer = UPLOAD_FIRST
                       /\ r.sources = <<>>
                       /\ r.docs = <<>>
                       /\ ~r.searched ]_vars

\* Remove All pressed on a session with documents, an index and a chat
C14_Witness ==
  /\ last.op = "remove_all"
  /\ last.held.documents >= 1
  /\ last.held.chunks >= 2
  /\ last.held.messages >= 2
  /\ processed_documents = {}
  /\ ~vector_store.present

\* C15: a file whose name does not end in .pdf (in any case) or whose size
\* is above 50 MB is rejected: get_pdf_text is not called on it, it adds no
\* chunk to the batch or the index and no registry entry; a readable PDF of
\* exactly 50 MB is not rejected.
NotPdfName(name) == name[Len(name)] \notin {".pdf", ".PDF"}

C15_RejectedFilesAreSkipped ==
  [][ last'.op = "process_documents"
        => \A i \in 1..Len(last'.batch) :
             LET f == last'.batch[i]
             IN /\ (NotPdfName(f.name) \/ f.size > 50 * 1048576)
                     => /\ last'.statuses[i] = "rejected"
                        /\ ~last'.extracted[i]
                        /\ last'.extended[i] = <<>>
                        /\ \A j \in 1..Len(vector_store'.texts) :
                              \A k \in 1..Len(vector_store'.texts[j]) :
                                 vector_store'.texts[j][k].doc # f.name
                        /\ \A e \in processed_documents' : e.name # f.name
                /\ (f.size = 50 * 1048576 /\ ~NotPdfName(f.name)
                       /\ f.readable /\ Len(f.pages) > 0)
                     => last'.statuses[i] # "rejected" /\ last'.extracted[i] ]_vars

\* limit.PDF of exactly 50 MB is ingested next to the rejected notes.txt
C15_Witness ==
  /\ last.op = "process_documents"
  /\ last.files = <<LIMIT, NOTES>>
  /\ last.batch[1].size = 50 * 1048576
  /\ last.statuses = <<"ok", "rejected">>
  /\ last.build = "ok"
  /\ vector_store.texts = last.extended[1]
  /\ {e.name : e \in processed_documents} = {LIMIT}

\* C16: process_documents run again on the batch of the call before (whose
\* build did not fail) leaves the index and the registry as that call left
\* them, with one registry entry per document name, and every question is
\* answered with the same citations as before the second run.
C16_ReingestionIsIdempotent ==
  [][ (last'.op = "process_documents" /\ last.op = "process_documents"
         /\ last'.batch = last.batch /\ last.build # "failed")
        => /\ vector_store' = vector_store
           /\ processed_documents' = processed_documents
           /\ \A e1, e2 \in processed_documents' :
                 e1.name = e2.name => e1 = e2
           /\ \A outcome \in Outcomes :
                \A ranking \in Rankings(Len(vector_store.texts)) :
                  process_question("What color is the sky?", vector_store',
                                   outcome, ranking).sources
                  = process_question("What color is the sky?", vector_store,
                                     outcome, ranking).sources ]_vars

\* the second run of a two-file batch has rebuilt the index
C16_Witness ==
  /\ last.op = "process_documents"
  /\ last.rerun
  /\ last.build = "ok"
  /\ Len(last.files) = 2
  /\ Len(vector_store.texts) >= 3
  /\ processed_documents # {}

\* C18: the registry agrees with the index: a non-empty registry implies an
\* index, every registered document has as many chunks in the index as its
\* entry says, and the chunk counts of the registry add up to the size of
\* the index.
RECURSIVE SumChunks(_)
SumChunks(registry) ==
  IF registry = {} THEN 0
  ELSE LET e == CHOOSE x \in registry : TRUE
       IN e.chunks + SumChunks(registry \ {e})

ChunksOfDoc(store, name) ==
  Cardinality({j \in 1..Len(store.texts) : store.texts[j][1].doc = name})

C18_RegistryAgreesWithIndex ==
  /\ processed_documents # {} => vector_store.present
  /\ \A e \in processed_documents : ChunksOfDoc(vector_store, e.name) = e.chunks
  /\ SumChunks(processed_documents) = Len(vector_store.texts)

\* C19: chat_history always has even length and alternates user message,
\* AI message; a Send with a non-blank question and a non-empty registry
\* appends the user message and then the AI message carrying the answer
\* (an error text when answering failed), any other Send appends nothing,
\* and Send and Clear Chat leave the index and the registry alone.
Alternates(history) ==
  /\ Len(history) % 2 = 0
  /\ \A i \in 1..Len(history) :
        history[i].type = IF i % 2 = 1 THEN "user" ELSE "ai"

C19_ChatAlternates ==
  /\ []Alternates(chat_history)
  /\ [][ /\ last'.op = "send"
             => /\ IF last'.question \notin {"", "   "} /\ processed_documents # {}
                   THEN /\ last'.called
                        /\ chat_history' =
                             chat_history \o
                             << [type |-> "user", content |-> last'.question],
                                [type |-> "ai", content |-> last'.result.answer,
                                 sources |-> last'.result.sources] >>
                   ELSE chat_history' = chat_history
                /\ vector_store' = vector_store
                /\ processed_documents' = processed_documents
         /\ last'.op = "clear_chat"
             => /\ chat_history' = <<>>
                /\ vector_store' = vector_store
                /\ processed_documents' = processed_documents ]_vars

\* the second question of a chat failed in the chain and its error text is
\* the fourth message
C19_Witness ==
  /\ last.op = "send"
  /\ last.called
  /\ last.outcome = "generation_error"
  /\ Len(chat_history) = 4
  /\ chat_history[3].type = "user"
  /\ chat_history[4] = [type |-> "ai", content |-> last.result.answer,
                         sources |-> <<>>]
  /\ chat_history[2].sources # <<>>

====
